---------------------------- MODULE Spec2Model ----------------------------
(***************************************************************************)
(* Smart-home relay: the producer role (src/publisher.py, SensorSimulator) *)
(* and the consumer role (src/subscriber.py, SensorDataSubscriber).        *)
(*                                                                         *)
(* One process runs one role; Init picks the role.  A role's own thread    *)
(* is followed by `pc'.  The producer's bus client runs its network loop   *)
(* in a second thread (loop_start), followed by `lpc'; the consumer's bus  *)
(* client runs its loop in the consumer's own thread (loop_forever), so    *)
(* its callbacks are steps of `pc'.  HTTP requests are served by further   *)
(* threads; /status reads the statistics one attribute at a time and is    *)
(* followed by `hpc'.                                                      *)
(*                                                                         *)
(* `x += 1' on an attribute without a lock is a load and a store (the      *)
(* producer has no lock); a `with self._stats_lock' block is one step.     *)
(* Timestamps are logical: the ordinal of the event that set them, 0 for   *)
(* None.                                                                   *)
(***************************************************************************)
EXTENDS Integers, Sequences, FiniteSets, TLC

VARIABLES
    role,               \* "publisher" | "subscriber"
    down,               \* the statements of run()'s finally block executed so far
    busUp,              \* environment: the broker accepts connections
    storeUp,            \* environment: the store answers health checks and writes
    flips,              \* history: changes of busUp and storeUp
    pc,                 \* position of the role's own thread
    caller,             \* who called the running mqtt connect loop
    retry_count,        \* retry_count of connect / connect_mqtt / connect_influxdb
    tmp,                \* own thread: error_count loaded by an unlocked +=
    room,               \* publish_sensor_data: index of the room being published
    mqtt_connected,     \* client.is_connected()
    pending,            \* a CONNECT was sent and its CONNACK is not yet processed
    loopStarted,        \* the bus client's network loop is running
    lpc,                \* producer: position of the network-loop thread
    ltmp,               \* producer loop thread: error_count loaded by +=
    inflight,           \* producer: qos-1 messages handed off, not yet acknowledged
    running,            \* self.running
    publish_count,
    error_count,
    last_publish_time,
    cseq,               \* history of the current/last connect sequence
    incOps,             \* history: completed `error_count += 1' statements
    handed,             \* history: publishes accepted by the bus client
    cycles,             \* history: publish cycles started
    cyc,                \* history of the current/last publish cycle
    busEvents,          \* history: refused CONNACKs and connection losses
    httpResp,           \* the last /health response
    \* consumer
    entry,              \* "none" | "run" (run()) | "calls" (methods called one by one)
    calls,              \* history: connect methods called one by one
    message_count,
    write_count,
    last_message_time,
    last_write_time,
    influx_client,      \* None or the id of the InfluxDBClient object
    write_api,          \* None or the id of the client the write API belongs to
    nClients,           \* InfluxDBClient objects created so far
    w_retry_count,      \* retry_count of write_to_influxdb
    subscribed,         \* the wildcard subscription on this connection:
                        \* "none" (not asked for) | "granted" | "refused"
    lost,               \* history: the connection was lost and no connect_mqtt ran since
    msg,                \* the message being handled / handled last, with its history
    log,                \* history: summaries of the messages handled before
    storeLog,           \* history: message ids of the write_api.write() calls
    hpc,                \* position of the HTTP thread serving /status
    hresp,              \* the /status response under construction
    seen                \* history: registry states during the /status request

pubVars == <<tmp, room, lpc, ltmp, inflight, publish_count, last_publish_time,
             handed, cycles, cyc>>
statsVars == <<message_count, write_count, last_message_time, last_write_time>>
storeVars == <<influx_client, write_api, nClients>>
statusVars == <<hpc, hresp, seen>>
subVars == <<entry, calls, statsVars, storeVars, w_retry_count, subscribed, lost, msg, log,
             storeLog, statusVars>>
envVars == <<busUp, storeUp, flips>>
clientVars == <<mqtt_connected, pending, loopStarted>>

vars == <<role, down, busUp, storeUp, flips, pc, caller, retry_count, tmp, room, mqtt_connected,
          pending, loopStarted, lpc, ltmp, inflight, running, publish_count,
          error_count, last_publish_time, cseq, incOps, handed, cycles, cyc,
          busEvents, httpResp, subVars>>

---------------------------------------------------------------------------
(* Bounds of the model *)
MaxCycles == 2          \* publish cycles explored
MaxBusEvents == 1       \* refused CONNACKs + connection losses explored
MaxInflight == 1        \* unacknowledged publishes explored
MaxFlips == 1           \* changes of reachability of the bus and the store
MaxOverlap == 1         \* registry updates during one /status request
MaxMsgs == 2            \* inbound messages explored
MaxCalls == 1           \* connect methods called one by one

(* Program constants *)
MaxRetries == 5         \* max_retries of the three connect loops
BackoffCap == 30        \* min(2 ** retry_count, 30)
NumSensors == 4         \* len(self.sensors)
WriteMaxRetries == 3    \* max_retries of write_to_influxdb
HumidityMin == 20       \* max(20.0, min(80.0, humidity))
HumidityMax == 80

None == 0

RECURSIVE Pow2(_)
Pow2(n) == IF n = 0 THEN 1 ELSE 2 * Pow2(n - 1)

Min(a, b) == IF a <= b THEN a ELSE b

\* A linear backoff, 2 * retry_count capped at 30: not what the code computes
BackoffDelayLinear(n) == Min(2 * n, BackoffCap)

\* wait_time = min(2 ** retry_count, 30)
BackoffDelay(n) == Min(Pow2(n), BackoffCap)

\* A counter that is kept from one call of a connect loop to the next: not
\* the code's, whose retry_count is a local variable
StaleRetryCount == retry_count

\* `retry_count = 0' at the head of connect / connect_mqtt / connect_influxdb
FreshRetryCount == 0

\* A connect loop that goes on after max_retries failures: not the code's test
MoreRetriesInclusive(n) == n <= MaxRetries

\* `while retry_count < max_retries' / `if retry_count < max_retries'
MoreRetries(n) == n < MaxRetries

\* What `except Exception' catches: every exception the connect primitives
\* raise is a subclass of Exception.
ExcKinds == {"OSError", "ValueError", "Exception"}
CaughtByExceptException(kind) == kind \in ExcKinds

NoSeq == [loop |-> "none", attempts |-> 0, fails |-> 0, oks |-> 0,
          result |-> "none", sleeps |-> <<>>, active |-> FALSE, ec0 |-> 0]
NewSeq(name) == [NoSeq EXCEPT !.loop = name, !.active = TRUE, !.ec0 = error_count]

\* Inbound payloads: the bytes decode or not, the text is JSON or not, the JSON
\* value is an object or not, and an object holds temperature / humidity as a
\* number, as a non-numeric text, or not at all.
Payload(enc, obj, tk, hk, hv) ==
    [enc |-> enc, obj |-> obj, tkind |-> tk, hkind |-> hk, hval |-> hv]
NoPayload == Payload("none", FALSE, "absent", "absent", 0)
Payloads ==
    { Payload("bad_utf8", FALSE, "absent", "absent", 0),
      Payload("bad_json", FALSE, "absent", "absent", 0),
      Payload("json", FALSE, "absent", "absent", 0),
      Payload("json", TRUE, "absent", "number", 55),
      Payload("json", TRUE, "text", "number", 55),
      Payload("json", TRUE, "number", "text", 0),
      Payload("json", TRUE, "number", "number", 95),
      Payload("json", TRUE, "number", "number", 55) }

\* payload = json.loads(msg.payload.decode())
DecodeOutcome(p) ==
    IF p.enc = "bad_utf8" THEN "UnicodeDecodeError"
    ELSE IF p.enc = "bad_json" THEN "JSONDecodeError"
    ELSE "ok"

\* A handler whose only except clause is `except json.JSONDecodeError': not
\* the code's handler
HandlerCatchesJsonOnly(kind) == kind = "JSONDecodeError"

\* on_mqtt_message: `except json.JSONDecodeError' and `except Exception'
\* between them catch every exception the decode and the write can raise.
HandlerExcKinds == {"JSONDecodeError", "UnicodeDecodeError", "KeyError", "TypeError",
                    "ValueError", "Exception"}
HandlerCatches(kind) == kind \in HandlerExcKinds

\* Point("sensor_data").tag("room", d['room']).field("temperature",
\* float(d['temperature'])).field("humidity", float(d['humidity']))...
\* raises TypeError / KeyError / ValueError unless d is an object holding
\* both fields as numbers; no range is checked.
PointBuilds(p) == p.obj /\ p.tkind = "number" /\ p.hkind = "number"

\* A write loop that makes a fourth pass: not the code's test
MoreWriteRetriesInclusive(n) == n <= WriteMaxRetries

\* `while retry_count < max_retries' of write_to_influxdb
MoreWriteRetries(n) == n < WriteMaxRetries

\* wait_time = 2 ** retry_count
WriteDelay(n) == Pow2(n)

\* `if retry_count == 2' : reconnect on the second failure
ReconnectAfter(n) == n = 2

NoMsg == [id |-> 0, payload |-> NoPayload, state |-> "none", outcome |-> "none",
          ec0 |-> 0, wc0 |-> 0, lwt0 |-> 0, writer |-> FALSE, noHandle |-> FALSE,
          firstCI |-> "none", connSeqs |-> 0, reconns |-> 0, sleeps |-> <<>>,
          errIncs |-> 0,
          iters |-> 0, writes |-> 0, wrote |-> FALSE]

\* publish_sensor_data: what one call did.  n: its ordinal; ec0, handed0:
\* error_count and the hand-offs when it began; connect: the outcome of its
\* connect(), if it ran one; tries, rejected: client.publish() calls made and
\* those that failed; prevAbandoned: the call before it was abandoned.
NoCyc == [n |-> 0, ec0 |-> 0, handed0 |-> 0, connect |-> "none", tries |-> 0,
          rejected |-> 0, abandoned |-> FALSE, prevAbandoned |-> FALSE]

NoStatus == [mqtt |-> FALSE, influx |-> FALSE, received |-> 0, written |-> 0,
             errors |-> 0, lmt |-> 0, lwt |-> 0]

NoResp == [kind |-> "none", code |-> 0, body |-> "", busOk |-> FALSE, storeOk |-> FALSE,
           flags |-> <<>>, counters |-> <<>>]

\* A finished response is held for one step, in which nothing else moves: it
\* is the observation of an instant.
NoResponseHeld == httpResp = NoResp /\ hpc # "done"

\* serve_forever() runs until stop_health_server() calls shutdown()
Listening == \A i \in 1..Len(down) : down[i] # "http"

---------------------------------------------------------------------------
Init ==
    /\ role \in {"publisher", "subscriber"}
    /\ down = <<>>
    /\ busUp \in BOOLEAN
    /\ storeUp \in (IF role = "subscriber" THEN BOOLEAN ELSE {FALSE})
    /\ flips = 0
    /\ pc = "start"
    /\ caller = "none"
    /\ retry_count = 0
    /\ tmp = 0
    /\ room = 0
    /\ mqtt_connected = FALSE
    /\ pending = FALSE
    /\ loopStarted = FALSE
    /\ lpc = "idle"
    /\ ltmp = 0
    /\ inflight = 0
    /\ running = FALSE
    /\ publish_count = 0
    /\ error_count = 0
    /\ last_publish_time = None
    /\ cseq = NoSeq
    /\ incOps = 0
    /\ handed = 0
    /\ cycles = 0
    /\ cyc = NoCyc
    /\ busEvents = 0
    /\ httpResp = NoResp
    /\ entry = "none"
    /\ calls = 0
    /\ message_count = 0
    /\ write_count = 0
    /\ last_message_time = None
    /\ last_write_time = None
    /\ influx_client = None
    /\ write_api = None
    /\ nClients = 0
    /\ w_retry_count = 0
    /\ subscribed = "none"
    /\ lost = FALSE
    /\ msg = NoMsg
    /\ log = <<>>
    /\ storeLog = <<>>
    /\ hpc = "idle"
    /\ hresp = NoStatus
    /\ seen = {}

---------------------------------------------------------------------------
(* Environment *)
BusToggle ==
    /\ NoResponseHeld
    /\ flips < MaxFlips
    /\ flips' = flips + 1
    /\ busUp' = ~busUp
    /\ UNCHANGED <<subVars, role, down, storeUp, pc, caller, retry_count, tmp, room, mqtt_connected,
                   pending, loopStarted, lpc, ltmp, inflight, running, publish_count,
                   error_count, last_publish_time, cseq, incOps, handed, cycles, cyc,
                   busEvents, httpResp>>

---------------------------------------------------------------------------
(* Producer: SensorSimulator *)

\* run(): start_health_server(), then connect()
PubRun ==
    /\ NoResponseHeld
    /\ role = "publisher" /\ pc = "start"
    /\ pc' = "c_try"
    /\ caller' = "run"
    /\ retry_count' = FreshRetryCount
    /\ cseq' = NewSeq("connect")
    /\ UNCHANGED <<subVars, role, down, envVars, tmp, room, clientVars, lpc, ltmp, inflight, running,
                   publish_count, error_count, last_publish_time, incOps, handed,
                   cycles, cyc, busEvents, httpResp>>

\* connect(): one pass of the try body up to the wait; client.connect() either
\* raises or sends CONNECT, and then loop_start() starts the network loop.
PubConnectTry ==
    /\ NoResponseHeld
    /\ role = "publisher" /\ pc = "c_try"
    /\ \E outcome \in {"sent"} \cup ExcKinds :
        /\ outcome = "sent" <=> busUp
        /\ cseq' = [cseq EXCEPT !.attempts = @ + 1]
        /\ IF outcome = "sent"
           THEN /\ pc' = "c_wait"
                /\ mqtt_connected' = FALSE
                /\ pending' = TRUE
                /\ loopStarted' = TRUE
                /\ tmp' = tmp
           ELSE /\ IF CaughtByExceptException(outcome)
                   THEN pc' = "c_exc_st" /\ tmp' = error_count
                   ELSE pc' = "escaped" /\ tmp' = tmp
                /\ UNCHANGED clientVars
    /\ UNCHANGED <<subVars, role, down, envVars, caller, retry_count, room, lpc, ltmp, inflight,
                   running, publish_count, error_count, last_publish_time, incOps,
                   handed, cycles, cyc, busEvents, httpResp>>

\* A caller that gives up for good when connect() fails in a cycle: not what
\* publish_sensor_data does
PubAfterConnectFatal(ok) ==
    IF caller = "run"
    THEN /\ pc' = IF ok THEN "loop" ELSE "exited"
         /\ running' = ok
         /\ room' = room
         /\ cyc' = cyc
    ELSE /\ pc' = IF ok THEN "pub" ELSE "exited"
         /\ running' = ok
         /\ room' = IF ok THEN 1 ELSE room
         /\ cyc' = [cyc EXCEPT !.connect = IF ok THEN "ok" ELSE "failed",
                               !.abandoned = ~ok]

\* The continuation of connect()'s caller
PubAfterConnect(ok) ==
    IF caller = "run"
    THEN /\ pc' = IF ok THEN "loop" ELSE "exited"
         /\ running' = ok
         /\ room' = room
         /\ cyc' = cyc
    ELSE /\ pc' = IF ok THEN "pub" ELSE "cycle_sleep"
         /\ running' = running
         /\ room' = IF ok THEN 1 ELSE room
         /\ cyc' = [cyc EXCEPT !.connect = IF ok THEN "ok" ELSE "failed",
                               !.abandoned = ~ok]

\* connect(): the wait for is_connected() ends, connected or timed out
PubConnectWait ==
    /\ NoResponseHeld
    /\ role = "publisher" /\ pc = "c_wait"
    /\ IF mqtt_connected
       THEN /\ cseq' = [cseq EXCEPT !.oks = @ + 1, !.result = "true", !.active = FALSE]
            /\ PubAfterConnect(TRUE)
            /\ tmp' = tmp
       ELSE /\ IF CaughtByExceptException("Exception")
               THEN pc' = "c_exc_st" /\ tmp' = error_count
               ELSE pc' = "escaped" /\ tmp' = tmp
            /\ UNCHANGED <<cseq, running, room, cyc>>
    /\ UNCHANGED <<subVars, role, down, envVars, caller, retry_count, clientVars, lpc, ltmp, inflight,
                   publish_count, error_count, last_publish_time, incOps, handed,
                   cycles, busEvents, httpResp>>

\* connect(): the except block; the store of error_count += 1, retry_count += 1
PubConnectExcept ==
    /\ NoResponseHeld
    /\ role = "publisher" /\ pc = "c_exc_st"
    /\ error_count' = tmp + 1
    /\ incOps' = incOps + 1
    /\ retry_count' = retry_count + 1
    /\ IF MoreRetries(retry_count')
       THEN /\ pc' = "c_sleep"
            /\ cseq' = [cseq EXCEPT !.fails = @ + 1]
            /\ UNCHANGED <<running, room, cyc>>
       ELSE /\ cseq' = [cseq EXCEPT !.fails = @ + 1, !.result = "false", !.active = FALSE]
            /\ PubAfterConnect(FALSE)
    /\ UNCHANGED <<subVars, role, down, envVars, caller, tmp, clientVars, lpc, ltmp, inflight,
                   publish_count, last_publish_time, handed, cycles, busEvents,
                   httpResp>>

\* connect(): time.sleep(wait_time)
PubConnectSleep ==
    /\ NoResponseHeld
    /\ role = "publisher" /\ pc = "c_sleep"
    /\ cseq' = [cseq EXCEPT !.sleeps = Append(@, BackoffDelay(retry_count))]
    /\ pc' = "c_try"
    /\ UNCHANGED <<subVars, role, down, envVars, caller, retry_count, tmp, room, clientVars, lpc, ltmp,
                   inflight, running, publish_count, error_count, last_publish_time,
                   incOps, handed, cycles, cyc, busEvents, httpResp>>

\* run(): while self.running: publish_sensor_data() up to the first publish
PubCycle ==
    /\ NoResponseHeld
    /\ role = "publisher" /\ pc = "loop" /\ running
    /\ cycles < MaxCycles
    /\ cycles' = cycles + 1
    /\ cyc' = [NoCyc EXCEPT !.n = cycles + 1, !.ec0 = error_count,
                            !.handed0 = handed, !.prevAbandoned = cyc.abandoned]
    /\ IF mqtt_connected
       THEN /\ pc' = "pub"
            /\ room' = 1
            /\ cseq' = NoSeq
            /\ UNCHANGED <<caller, retry_count>>
       ELSE /\ pc' = "c_try"
            /\ caller' = "cycle"
            /\ retry_count' = FreshRetryCount
            /\ cseq' = NewSeq("connect")
            /\ room' = room
    /\ UNCHANGED <<subVars, role, down, envVars, tmp, clientVars, lpc, ltmp, inflight, running,
                   publish_count, error_count, last_publish_time, incOps, handed,
                   busEvents, httpResp>>

\* publish_sensor_data(): client.publish() for one room
PubPublish ==
    /\ NoResponseHeld
    /\ role = "publisher" /\ pc = "pub"
    /\ \E ok \in BOOLEAN :
        /\ ok => (mqtt_connected /\ inflight < MaxInflight)
        /\ IF ok
           THEN /\ inflight' = inflight + 1
                /\ handed' = handed + 1
                /\ tmp' = tmp
                /\ cyc' = [cyc EXCEPT !.tries = @ + 1]
                /\ IF room < NumSensors
                   THEN pc' = "pub" /\ room' = room + 1
                   ELSE pc' = "cycle_sleep" /\ room' = room
           ELSE /\ pc' = "p_exc_st"
                /\ tmp' = error_count
                /\ cyc' = [cyc EXCEPT !.tries = @ + 1, !.rejected = @ + 1]
                /\ UNCHANGED <<inflight, handed, room>>
    /\ cseq' = NoSeq
    /\ UNCHANGED <<subVars, role, down, envVars, caller, retry_count, clientVars, lpc, ltmp, running,
                   publish_count, error_count, last_publish_time, incOps, cycles,
                   busEvents, httpResp>>

\* publish_sensor_data(): the store of error_count += 1 after a failed publish
PubPublishFailed ==
    /\ NoResponseHeld
    /\ role = "publisher" /\ pc = "p_exc_st"
    /\ error_count' = tmp + 1
    /\ incOps' = incOps + 1
    /\ IF room < NumSensors
       THEN pc' = "pub" /\ room' = room + 1
       ELSE pc' = "cycle_sleep" /\ room' = room
    /\ UNCHANGED <<subVars, role, down, envVars, caller, retry_count, tmp, clientVars, lpc, ltmp,
                   inflight, running, publish_count, last_publish_time, cseq, handed,
                   cycles, cyc, busEvents, httpResp>>

\* run(): time.sleep(30)
PubCycleSleep ==
    /\ NoResponseHeld
    /\ role = "publisher" /\ pc = "cycle_sleep"
    /\ pc' = "loop"
    /\ cseq' = NoSeq
    /\ UNCHANGED <<subVars, role, down, envVars, caller, retry_count, tmp, room, clientVars, lpc, ltmp,
                   inflight, running, publish_count, error_count, last_publish_time,
                   incOps, handed, cycles, cyc, busEvents, httpResp>>

---------------------------------------------------------------------------
(* Producer: the bus client's network-loop thread and its callbacks *)

\* CONNACK processed; on_connect(rc)
PubOnConnect ==
    /\ NoResponseHeld
    /\ role = "publisher" /\ loopStarted /\ lpc = "idle" /\ pending
    /\ \E rc \in {0, 5} :
        /\ rc = 0 => busUp
        /\ rc # 0 => busEvents < MaxBusEvents
        /\ pending' = FALSE
        /\ IF rc = 0
           THEN /\ mqtt_connected' = TRUE
                /\ UNCHANGED <<lpc, ltmp, busEvents>>
           ELSE /\ mqtt_connected' = FALSE
                /\ lpc' = "l_st"
                /\ ltmp' = error_count
                /\ busEvents' = busEvents + 1
    /\ UNCHANGED <<subVars, role, down, envVars, pc, caller, retry_count, tmp, room, loopStarted,
                   inflight, running, publish_count, error_count, last_publish_time,
                   cseq, incOps, handed, cycles, cyc, httpResp>>

\* The connection is lost; on_disconnect(rc) with rc != 0
PubOnDisconnect ==
    /\ NoResponseHeld
    /\ role = "publisher" /\ loopStarted /\ lpc = "idle" /\ mqtt_connected
    /\ busEvents < MaxBusEvents
    /\ busEvents' = busEvents + 1
    /\ mqtt_connected' = FALSE
    /\ lpc' = "l_st"
    /\ ltmp' = error_count
    /\ UNCHANGED <<subVars, role, down, envVars, pc, caller, retry_count, tmp, room, pending,
                   loopStarted, inflight, running, publish_count, error_count,
                   last_publish_time, cseq, incOps, handed, cycles, cyc, httpResp>>

\* on_connect / on_disconnect: the store of error_count += 1
PubLoopStore ==
    /\ NoResponseHeld
    /\ role = "publisher" /\ lpc = "l_st"
    /\ error_count' = ltmp + 1
    /\ incOps' = incOps + 1
    /\ lpc' = "idle"
    /\ UNCHANGED <<subVars, role, down, envVars, pc, caller, retry_count, tmp, room, clientVars, ltmp,
                   inflight, running, publish_count, last_publish_time, cseq, handed,
                   cycles, cyc, busEvents, httpResp>>

\* The loop thread reconnects by itself after a connection loss
PubLoopReconnect ==
    /\ NoResponseHeld
    /\ role = "publisher" /\ loopStarted /\ lpc = "idle"
    /\ ~mqtt_connected /\ ~pending /\ busUp
    /\ pending' = TRUE
    /\ UNCHANGED <<subVars, role, down, envVars, pc, caller, retry_count, tmp, room, mqtt_connected,
                   loopStarted, lpc, ltmp, inflight, running, publish_count,
                   error_count, last_publish_time, cseq, incOps, handed, cycles, cyc,
                   busEvents, httpResp>>

\* A confirmation callback that counts two per PUBACK: not the code's
PubOnPublishTwice ==
    /\ NoResponseHeld
    /\ role = "publisher" /\ loopStarted /\ lpc = "idle" /\ mqtt_connected
    /\ inflight > 0
    /\ inflight' = inflight - 1
    /\ publish_count' = publish_count + 2
    /\ last_publish_time' = publish_count + 2
    /\ UNCHANGED <<subVars, role, down, envVars, pc, caller, retry_count, tmp, room, clientVars, lpc,
                   ltmp, running, error_count, cseq, incOps, handed, cycles, cyc, busEvents,
                   httpResp>>

\* PUBACK processed; on_publish(mid)
PubOnPublish ==
    /\ NoResponseHeld
    /\ role = "publisher" /\ loopStarted /\ lpc = "idle" /\ mqtt_connected
    /\ inflight > 0
    /\ inflight' = inflight - 1
    /\ publish_count' = publish_count + 1
    /\ last_publish_time' = publish_count + 1
    /\ UNCHANGED <<subVars, role, down, envVars, pc, caller, retry_count, tmp, room, clientVars, lpc,
                   ltmp, running, error_count, cseq, incOps, handed, cycles, cyc, busEvents,
                   httpResp>>

---------------------------------------------------------------------------
(* Producer: HealthCheckHandler *)

\* handle_health_check
PubHealthResponse ==
    IF mqtt_connected
    THEN [NoResp EXCEPT !.kind = "health", !.code = 200, !.body = "OK",
                        !.busOk = mqtt_connected, !.storeOk = TRUE]
    ELSE [NoResp EXCEPT !.kind = "health", !.code = 503, !.body = "MQTT_DISCONNECTED",
                        !.busOk = mqtt_connected, !.storeOk = TRUE]

PubHealth ==
    /\ NoResponseHeld
    /\ Listening
    /\ role = "publisher" /\ pc # "start"
    /\ httpResp = NoResp
    /\ httpResp' = PubHealthResponse
    /\ UNCHANGED <<subVars, role, down, envVars, pc, caller, retry_count, tmp, room, clientVars, lpc,
                   ltmp, inflight, running, publish_count, error_count,
                   last_publish_time, cseq, incOps, handed, cycles, cyc, busEvents>>

---------------------------------------------------------------------------
(* Consumer: SensorDataSubscriber *)

Registry ==
    <<message_count, write_count, error_count, last_message_time, last_write_time>>

\* The registry states a /status request in progress could have copied; at
\* most MaxOverlap updating steps are explored during one request.  A step of
\* on_mqtt_message that takes the lock twice adds the state between the two.
SeenNext ==
    IF hpc \in {"idle", "done"} \/ Registry' = Registry
    THEN seen' = seen
    ELSE /\ Cardinality(seen) <= MaxOverlap
         /\ seen' = seen \cup {Registry'} \cup
                    (IF message_count' # message_count
                     THEN {<<message_count', write_count, error_count,
                             last_message_time', last_write_time>>}
                     ELSE {})

StoreToggle ==
    /\ NoResponseHeld
    /\ role = "subscriber"
    /\ flips < MaxFlips
    /\ flips' = flips + 1
    /\ storeUp' = ~storeUp
    /\ UNCHANGED <<subVars, pubVars, role, down, busUp, pc, caller, retry_count, clientVars,
                   running, error_count, cseq, incOps, busEvents, httpResp>>

\* run(): self.running = True, start_health_server(), then connect_influxdb()
SubRun ==
    /\ NoResponseHeld
    /\ role = "subscriber" /\ pc = "start" /\ entry = "none"
    /\ entry' = "run"
    /\ running' = TRUE
    /\ pc' = "ci_try"
    /\ caller' = "run"
    /\ retry_count' = FreshRetryCount
    /\ cseq' = NewSeq("connect_influxdb")
    /\ UNCHANGED <<lost, calls, statsVars, storeVars, w_retry_count, subscribed, msg, log,
                   storeLog, statusVars, pubVars, role, down, envVars, clientVars,
                   error_count, incOps, busEvents, httpResp>>

\* connect_influxdb() called on the object outside run()
SubCallConnectInfluxdb ==
    /\ NoResponseHeld
    /\ role = "subscriber" /\ pc \in {"start", "idle"} /\ entry # "run"
    /\ calls < MaxCalls
    /\ calls' = calls + 1
    /\ entry' = "calls"
    /\ pc' = "ci_try"
    /\ caller' = "calls"
    /\ retry_count' = FreshRetryCount
    /\ cseq' = NewSeq("connect_influxdb")
    /\ UNCHANGED <<lost, statsVars, storeVars, w_retry_count, subscribed, msg, log,
                   storeLog, statusVars, pubVars, role, down, envVars, clientVars, running,
                   error_count, incOps, busEvents, httpResp>>

\* connect_mqtt() called on the object outside run()
SubCallConnectMqtt ==
    /\ NoResponseHeld
    /\ role = "subscriber" /\ pc \in {"start", "idle"} /\ entry # "run"
    /\ calls < MaxCalls
    /\ calls' = calls + 1
    /\ entry' = "calls"
    /\ pc' = "cm_try"
    /\ caller' = "calls"
    /\ retry_count' = FreshRetryCount
    /\ cseq' = NewSeq("connect_mqtt")
    /\ lost' = FALSE
    /\ UNCHANGED <<statsVars, storeVars, w_retry_count, subscribed, msg, log,
                   storeLog, statusVars, pubVars, role, down, envVars, clientVars, running,
                   error_count, incOps, busEvents, httpResp>>

\* mqtt_client.loop_forever() entered outside run(), a CONNECT having been sent
SubCallLoop ==
    /\ NoResponseHeld
    /\ role = "subscriber" /\ pc = "idle" /\ entry = "calls"
    /\ pending
    /\ pc' = "loop"
    /\ loopStarted' = TRUE
    /\ cseq' = NoSeq
    /\ UNCHANGED <<subVars, pubVars, role, down, envVars, caller, retry_count, mqtt_connected,
                   pending, running, error_count, incOps, busEvents, httpResp>>

\* A connect attempt that keeps the client only if its health check passes:
\* not the code's
ClientHeldIfHealthy(outcome) == IF outcome = "pass" THEN nClients + 1 ELSE None

\* `self.influx_client = InfluxDBClient(...)' comes before the health check:
\* the new client is held whatever the check gives
ClientHeld(outcome) == nClients + 1

\* connect_influxdb(): one pass of the loop body.  The client object is
\* replaced first; health() passes, reports a failure (the code raises
\* Exception) or raises.
SubInfluxTry ==
    /\ NoResponseHeld
    /\ role = "subscriber" /\ pc = "ci_try"
    /\ nClients' = nClients + 1
    /\ \E outcome \in {"pass"} \cup ExcKinds :
        /\ outcome = "pass" <=> storeUp
        /\ influx_client' = ClientHeld(outcome)
        /\ IF outcome = "pass"
           THEN /\ write_api' = nClients + 1
                /\ cseq' = [cseq EXCEPT !.attempts = @ + 1, !.oks = @ + 1,
                                        !.result = "true", !.active = FALSE]
                /\ pc' = "ci_ret"
                /\ UNCHANGED <<error_count, incOps, retry_count>>
           ELSE /\ write_api' = write_api
                /\ IF CaughtByExceptException(outcome)
                   THEN /\ error_count' = error_count + 1
                        /\ incOps' = incOps + 1
                        /\ retry_count' = retry_count + 1
                        /\ IF MoreRetries(retry_count')
                           THEN /\ pc' = "ci_sleep"
                                /\ cseq' = [cseq EXCEPT !.attempts = @ + 1,
                                                        !.fails = @ + 1]
                           ELSE /\ pc' = "ci_ret"
                                /\ cseq' = [cseq EXCEPT !.attempts = @ + 1,
                                                        !.fails = @ + 1,
                                                        !.result = "false",
                                                        !.active = FALSE]
                   ELSE /\ pc' = "escaped"
                        /\ cseq' = [cseq EXCEPT !.attempts = @ + 1]
                        /\ UNCHANGED <<error_count, incOps, retry_count>>
    /\ UNCHANGED <<lost, entry, calls, statsVars, w_retry_count, subscribed, msg, log,
                   storeLog, hpc, hresp, pubVars, role, down, envVars, caller, clientVars,
                   running, busEvents, httpResp>>
    /\ SeenNext

\* connect_influxdb(): time.sleep(wait_time)
SubInfluxSleep ==
    /\ NoResponseHeld
    /\ role = "subscriber" /\ pc = "ci_sleep"
    /\ cseq' = [cseq EXCEPT !.sleeps = Append(@, BackoffDelay(retry_count))]
    /\ pc' = "ci_try"
    /\ UNCHANGED <<subVars, pubVars, role, down, envVars, caller, retry_count, clientVars,
                   running, error_count, incOps, busEvents, httpResp>>

\* run(): connect_influxdb() returned; connect_mqtt() follows, or run() returns
SubInfluxReturnRun ==
    /\ NoResponseHeld
    /\ role = "subscriber" /\ pc = "ci_ret" /\ caller = "run"
    /\ IF cseq.result = "true"
       THEN /\ pc' = "cm_try"
            /\ retry_count' = FreshRetryCount
            /\ cseq' = NewSeq("connect_mqtt")
       ELSE /\ pc' = "exited"
            /\ UNCHANGED <<retry_count, cseq>>
    /\ UNCHANGED <<subVars, pubVars, role, down, envVars, caller, clientVars, running,
                   error_count, incOps, busEvents, httpResp>>

\* connect_influxdb() / connect_mqtt() returned to a caller outside run()
SubReturnToCaller ==
    /\ NoResponseHeld
    /\ role = "subscriber" /\ pc \in {"ci_ret", "cm_ret"} /\ caller = "calls"
    /\ pc' = "idle"
    /\ retry_count' = 0
    /\ cseq' = NoSeq
    /\ UNCHANGED <<subVars, pubVars, role, down, envVars, caller, clientVars,
                   running, error_count, incOps, busEvents, httpResp>>

\* write_to_influxdb(): the except block of the retry loop, entered with the
\* history m of the call: error_count += 1 under the lock, retry_count += 1,
\* then the sleep, or the end of the loop and the normal return.
WriteFailed(m) ==
    /\ error_count' = error_count + 1
    /\ incOps' = incOps + 1
    /\ w_retry_count' = w_retry_count + 1
    /\ IF MoreWriteRetries(w_retry_count')
       THEN /\ pc' = "w_sleep"
            /\ msg' = [m EXCEPT !.errIncs = @ + 1]
            /\ log' = log
       ELSE /\ pc' = "loop"
            /\ msg' = [m EXCEPT !.errIncs = @ + 1, !.state = "done",
                                !.outcome = "dropped"]
            /\ log' = Append(log, [id |-> m.id, outcome |-> "dropped",
                                   iters |-> m.iters])

\* A success path that counts the passes made instead of the message: not
\* what the code does
WriteSucceededPerPass(m) ==
    /\ write_count' = write_count + m.iters
    /\ last_write_time' = write_count + m.iters
    /\ msg' = [m EXCEPT !.wrote = TRUE, !.state = "done", !.outcome = "written"]
    /\ log' = Append(log, [id |-> m.id, outcome |-> "written", iters |-> m.iters])
    /\ pc' = "loop"

\* A success path that counts the record twice: not what the code does
WriteSucceededTwice(m) ==
    /\ write_count' = write_count + 2
    /\ last_write_time' = write_count + 2
    /\ msg' = [m EXCEPT !.wrote = TRUE, !.state = "done", !.outcome = "written"]
    /\ log' = Append(log, [id |-> m.id, outcome |-> "written", iters |-> m.iters])
    /\ pc' = "loop"

\* write_to_influxdb(): a write passed.  write_count += 1 and last_write_time
\* under the lock, and the call returns.
WriteSucceeded(m) ==
    /\ write_count' = write_count + 1
    /\ last_write_time' = write_count + 1
    /\ msg' = [m EXCEPT !.wrote = TRUE, !.state = "done", !.outcome = "written"]
    /\ log' = Append(log, [id |-> m.id, outcome |-> "written", iters |-> m.iters])
    /\ pc' = "loop"

\* An exception leaves write_to_influxdb() and reaches the `except Exception'
\* of on_mqtt_message: error_count += 1 under the lock, and the callback returns.
WriteRaised(m) ==
    /\ error_count' = error_count + 1
    /\ incOps' = incOps + 1
    /\ w_retry_count' = w_retry_count
    /\ msg' = [m EXCEPT !.state = "done", !.outcome = "raised"]
    /\ log' = Append(log, [id |-> m.id, outcome |-> "raised", iters |-> m.iters])
    /\ pc' = "loop"

\* write_to_influxdb(): connect_influxdb() returned to `if not
\* self.connect_influxdb(): raise Exception(...)', inside the try
SubInfluxReturnWrite ==
    /\ NoResponseHeld
    /\ role = "subscriber" /\ pc = "ci_ret" /\ caller = "w_pre"
    /\ LET ok == cseq.result = "true"
           m == [msg EXCEPT !.firstCI = IF @ = "none"
                                         THEN (IF ok THEN "ok" ELSE "fail") ELSE @]
       IN IF ok
          THEN /\ pc' = "w_write"
               /\ msg' = m
               /\ UNCHANGED <<error_count, incOps, w_retry_count, log>>
          ELSE IF CaughtByExceptException("Exception")
               THEN WriteFailed(m)
               ELSE WriteRaised(m)
    /\ retry_count' = 0
    /\ cseq' = NoSeq
    /\ UNCHANGED <<lost, entry, calls, statsVars, storeVars, subscribed, storeLog, hpc, hresp,
                   pubVars, role, down, envVars, caller, clientVars, running, busEvents,
                   httpResp>>
    /\ SeenNext

\* write_to_influxdb(): connect_influxdb() returned to the reconnect after the
\* second failure; its result is not looked at
SubInfluxReturnReconnect ==
    /\ NoResponseHeld
    /\ role = "subscriber" /\ pc = "ci_ret" /\ caller = "w_reconn"
    /\ pc' = "w_check"
    /\ msg' = [msg EXCEPT !.firstCI = IF @ = "none"
                              THEN (IF cseq.result = "true" THEN "ok" ELSE "fail")
                              ELSE @]
    /\ retry_count' = 0
    /\ cseq' = NoSeq
    /\ UNCHANGED <<lost, entry, calls, statsVars, storeVars, w_retry_count, subscribed, log,
                   storeLog, statusVars, pubVars, role, down, envVars, caller, clientVars,
                   running, error_count, incOps, busEvents, httpResp>>

\* connect_mqtt(): one pass of the try body up to the wait
SubMqttTry ==
    /\ NoResponseHeld
    /\ role = "subscriber" /\ pc = "cm_try"
    /\ \E outcome \in {"sent"} \cup ExcKinds :
        /\ outcome = "sent" <=> busUp
        /\ IF outcome = "sent"
           THEN /\ pc' = "cm_wait"
                /\ mqtt_connected' = FALSE
                /\ subscribed' = "none"
                /\ pending' = TRUE
                /\ cseq' = [cseq EXCEPT !.attempts = @ + 1]
                /\ UNCHANGED <<error_count, incOps, retry_count>>
           ELSE /\ UNCHANGED <<mqtt_connected, subscribed, pending>>
                /\ IF CaughtByExceptException(outcome)
                   THEN /\ error_count' = error_count + 1
                        /\ incOps' = incOps + 1
                        /\ retry_count' = retry_count + 1
                        /\ IF MoreRetries(retry_count')
                           THEN /\ pc' = "cm_sleep"
                                /\ cseq' = [cseq EXCEPT !.attempts = @ + 1,
                                                        !.fails = @ + 1]
                           ELSE /\ pc' = "cm_ret"
                                /\ cseq' = [cseq EXCEPT !.attempts = @ + 1,
                                                        !.fails = @ + 1,
                                                        !.result = "false",
                                                        !.active = FALSE]
                   ELSE /\ pc' = "escaped"
                        /\ cseq' = [cseq EXCEPT !.attempts = @ + 1]
                        /\ UNCHANGED <<error_count, incOps, retry_count>>
    /\ UNCHANGED <<lost, entry, calls, statsVars, storeVars, w_retry_count, msg, log,
                   storeLog, hpc, hresp, pubVars, role, down, envVars, caller, loopStarted,
                   running, busEvents, httpResp>>
    /\ SeenNext

\* connect_mqtt(): the wait for is_connected() ends, connected or timed out.
\* Nothing processes the CONNACK during the wait: the client's loop is not
\* running in this thread.
SubMqttWait ==
    /\ NoResponseHeld
    /\ role = "subscriber" /\ pc = "cm_wait"
    /\ IF mqtt_connected
       THEN /\ cseq' = [cseq EXCEPT !.oks = @ + 1, !.result = "true", !.active = FALSE]
            /\ pc' = "cm_ret"
            /\ UNCHANGED <<error_count, incOps, retry_count>>
       ELSE IF CaughtByExceptException("Exception")
            THEN /\ error_count' = error_count + 1
                 /\ incOps' = incOps + 1
                 /\ retry_count' = retry_count + 1
                 /\ IF MoreRetries(retry_count')
                    THEN /\ pc' = "cm_sleep"
                         /\ cseq' = [cseq EXCEPT !.fails = @ + 1]
                    ELSE /\ pc' = "cm_ret"
                         /\ cseq' = [cseq EXCEPT !.fails = @ + 1, !.result = "false",
                                                 !.active = FALSE]
            ELSE /\ pc' = "escaped"
                 /\ UNCHANGED <<error_count, incOps, retry_count, cseq>>
    /\ UNCHANGED <<lost, entry, calls, statsVars, storeVars, w_retry_count, subscribed, msg,
                   log, storeLog, hpc, hresp, pubVars, role, down, envVars, caller, clientVars,
                   running, busEvents, httpResp>>
    /\ SeenNext

\* connect_mqtt(): time.sleep(wait_time)
SubMqttSleep ==
    /\ NoResponseHeld
    /\ role = "subscriber" /\ pc = "cm_sleep"
    /\ cseq' = [cseq EXCEPT !.sleeps = Append(@, BackoffDelay(retry_count))]
    /\ pc' = "cm_try"
    /\ UNCHANGED <<subVars, pubVars, role, down, envVars, caller, retry_count, clientVars,
                   running, error_count, incOps, busEvents, httpResp>>

\* run(): connect_mqtt() returned; loop_forever() follows, or run() returns
SubMqttReturnRun ==
    /\ NoResponseHeld
    /\ role = "subscriber" /\ pc = "cm_ret" /\ caller = "run"
    /\ IF cseq.result = "true"
       THEN pc' = "loop" /\ loopStarted' = TRUE
       ELSE pc' = "exited" /\ loopStarted' = loopStarted
    /\ UNCHANGED <<subVars, pubVars, role, down, envVars, caller, retry_count, mqtt_connected,
                   pending, running, error_count, cseq, incOps, busEvents, httpResp>>

---------------------------------------------------------------------------
(* Consumer: callbacks delivered by the bus client's loop *)

\* A loop that also delivers callbacks while a write is sleeping between two
\* passes, as a second thread would: not loop_forever
BetweenCallbacksOrSleeping == pc \in {"loop", "w_sleep"}

\* loop_forever() runs in the consumer's own thread and calls one callback at
\* a time: the next one is called when the previous one has returned.
BetweenCallbacks == pc = "loop"

\* CONNACK processed; on_mqtt_connect(rc).  With rc = 0 client.subscribe() is
\* called; the broker grants the subscription or not, and the result of the
\* call is not looked at.
SubOnConnect ==
    /\ NoResponseHeld
    /\ role = "subscriber" /\ BetweenCallbacks /\ pending
    /\ \E rc \in {0, 5} :
        /\ rc = 0 => busUp
        /\ rc # 0 => busEvents < MaxBusEvents
        /\ pending' = FALSE
        /\ IF rc = 0
           THEN /\ mqtt_connected' = TRUE
                /\ \E granted \in BOOLEAN :
                      subscribed' = IF granted THEN "granted" ELSE "refused"
                /\ UNCHANGED <<error_count, incOps, busEvents>>
           ELSE /\ mqtt_connected' = FALSE
                /\ subscribed' = "none"
                /\ error_count' = error_count + 1
                /\ incOps' = incOps + 1
                /\ busEvents' = busEvents + 1
    /\ UNCHANGED <<lost, entry, calls, statsVars, storeVars, w_retry_count, msg, log,
                   storeLog, hpc, hresp, pubVars, role, down, envVars, pc, caller,
                   retry_count, loopStarted, running, cseq, httpResp>>
    /\ SeenNext

\* The connection is lost; on_mqtt_disconnect(rc) with rc != 0
SubOnDisconnect ==
    /\ NoResponseHeld
    /\ role = "subscriber" /\ BetweenCallbacks /\ mqtt_connected
    /\ busEvents < MaxBusEvents
    /\ busEvents' = busEvents + 1
    /\ mqtt_connected' = FALSE
    /\ subscribed' = "none"
    /\ error_count' = error_count + 1
    /\ incOps' = incOps + 1
    /\ lost' = TRUE
    /\ UNCHANGED <<entry, calls, statsVars, storeVars, w_retry_count, msg, log,
                   storeLog, hpc, hresp, pubVars, role, down, envVars, pc, caller,
                   retry_count, pending, loopStarted, running, cseq, httpResp>>
    /\ SeenNext

\* loop_forever() reconnects by itself after a connection loss
SubLoopReconnect ==
    /\ NoResponseHeld
    /\ role = "subscriber" /\ BetweenCallbacks
    /\ ~mqtt_connected /\ ~pending /\ busUp
    /\ pending' = TRUE
    /\ UNCHANGED <<subVars, pubVars, role, down, envVars, pc, caller, retry_count,
                   mqtt_connected, loopStarted, running, error_count, cseq, incOps,
                   busEvents, httpResp>>

\* on_mqtt_message(): the statistics, the decode, and the call of
\* write_to_influxdb(payload) or one of the two except clauses
SubOnMessage ==
    /\ NoResponseHeld
    /\ role = "subscriber" /\ BetweenCallbacks /\ mqtt_connected
    /\ subscribed = "granted"
    /\ msg.id < MaxMsgs
    /\ message_count' = message_count + 1
    /\ last_message_time' = message_count + 1
    /\ \E p \in Payloads :
        LET m == [NoMsg EXCEPT !.id = msg.id + 1, !.payload = p,
                               !.state = "handling", !.ec0 = error_count,
                               !.wc0 = write_count, !.lwt0 = last_write_time]
        IN IF DecodeOutcome(p) # "ok"
           THEN IF HandlerCatches(DecodeOutcome(p))
                THEN /\ error_count' = error_count + 1
                     /\ incOps' = incOps + 1
                     /\ msg' = [m EXCEPT !.state = "done", !.outcome = "decode_error"]
                     /\ log' = Append(log, [id |-> m.id, outcome |-> "decode_error",
                                            iters |-> 0])
                     /\ UNCHANGED <<pc, w_retry_count>>
                ELSE /\ pc' = "escaped"
                     /\ msg' = m
                     /\ UNCHANGED <<error_count, incOps, log, w_retry_count>>
           ELSE /\ msg' = [m EXCEPT !.writer = TRUE, !.noHandle = (write_api = None)]
                /\ w_retry_count' = 0
                /\ pc' = "w_check"
                /\ UNCHANGED <<error_count, incOps, log>>
    /\ UNCHANGED <<lost, entry, calls, write_count, last_write_time, storeVars, subscribed,
                   storeLog, hpc, hresp, pubVars, role, down, envVars, caller, retry_count,
                   clientVars, running, cseq, busEvents, httpResp>>
    /\ SeenNext

\* write_to_influxdb(): the head of a pass, `if not self.write_api'
SubWriteCheck ==
    /\ NoResponseHeld
    /\ role = "subscriber" /\ pc = "w_check"
    /\ IF write_api = None
       THEN /\ pc' = "ci_try"
            /\ caller' = "w_pre"
            /\ retry_count' = FreshRetryCount
            /\ cseq' = NewSeq("connect_influxdb")
            /\ msg' = [msg EXCEPT !.iters = @ + 1, !.connSeqs = @ + 1,
                                  !.reconns = IF w_retry_count >= 2 THEN @ + 1 ELSE @]
       ELSE /\ pc' = "w_write"
            /\ msg' = [msg EXCEPT !.iters = @ + 1]
            /\ UNCHANGED <<caller, retry_count, cseq>>
    /\ UNCHANGED <<lost, entry, calls, statsVars, storeVars, w_retry_count, subscribed, log,
                   storeLog, statusVars, pubVars, role, down, envVars, clientVars, running,
                   error_count, incOps, busEvents, httpResp>>

\* write_to_influxdb(): the point is built and written; on success the
\* statistics are updated and the call returns
SubWriteAttempt ==
    /\ NoResponseHeld
    /\ role = "subscriber" /\ pc = "w_write"
    /\ IF ~PointBuilds(msg.payload)
       THEN /\ WriteFailed(msg)
            /\ UNCHANGED <<write_count, last_write_time, storeLog>>
       ELSE /\ storeLog' = Append(storeLog, msg.id)
            /\ \E ok \in BOOLEAN :
                /\ ok => storeUp
                /\ IF ok
                   THEN /\ WriteSucceeded([msg EXCEPT !.writes = @ + 1])
                        /\ UNCHANGED <<error_count, incOps, w_retry_count>>
                   ELSE /\ WriteFailed([msg EXCEPT !.writes = @ + 1])
                        /\ UNCHANGED <<write_count, last_write_time>>
    /\ UNCHANGED <<lost, entry, calls, message_count, last_message_time, storeVars, subscribed,
                   hpc, hresp, pubVars, role, down, envVars, caller, retry_count, clientVars,
                   running, cseq, busEvents, httpResp>>
    /\ SeenNext

\* write_to_influxdb(): time.sleep(wait_time), and connect_influxdb() after the
\* second failure
SubWriteSleep ==
    /\ NoResponseHeld
    /\ role = "subscriber" /\ pc = "w_sleep"
    /\ IF ReconnectAfter(w_retry_count)
       THEN /\ pc' = "ci_try"
            /\ caller' = "w_reconn"
            /\ retry_count' = FreshRetryCount
            /\ cseq' = NewSeq("connect_influxdb")
            /\ msg' = [msg EXCEPT !.sleeps = Append(@, WriteDelay(w_retry_count)),
                                  !.connSeqs = @ + 1, !.reconns = @ + 1]
       ELSE /\ pc' = "w_check"
            /\ msg' = [msg EXCEPT !.sleeps = Append(@, WriteDelay(w_retry_count))]
            /\ UNCHANGED <<caller, retry_count, cseq>>
    /\ UNCHANGED <<lost, entry, calls, statsVars, storeVars, w_retry_count, subscribed, log,
                   storeLog, statusVars, pubVars, role, down, envVars, clientVars, running,
                   error_count, incOps, busEvents, httpResp>>

---------------------------------------------------------------------------
(* Consumer: HealthCheckHandler *)

\* The store is connected: a write API is held and the store answers
StoreConnected == write_api # None /\ storeUp

\* handle_health_check
SubHealthResponse ==
    LET mqtt_ok == mqtt_connected
        influx_ok == influx_client # None
        body == IF mqtt_ok /\ influx_ok THEN "OK"
                ELSE IF ~mqtt_ok /\ ~influx_ok THEN "MQTT_AND_INFLUXDB_DISCONNECTED"
                ELSE IF ~mqtt_ok THEN "MQTT_DISCONNECTED"
                ELSE "INFLUXDB_DISCONNECTED"
    IN [NoResp EXCEPT !.kind = "health",
                      !.code = IF mqtt_ok /\ influx_ok THEN 200 ELSE 503,
                      !.body = body, !.busOk = mqtt_connected,
                      !.storeOk = StoreConnected]

SubHealth ==
    /\ NoResponseHeld
    /\ Listening
    /\ role = "subscriber" /\ pc # "start"
    /\ httpResp = NoResp /\ hpc = "idle"
    /\ httpResp' = SubHealthResponse
    /\ UNCHANGED <<subVars, pubVars, role, down, envVars, pc, caller, retry_count, clientVars,
                   running, error_count, cseq, incOps, busEvents>>

\* handle_status_check: the store's health and the bus flag are read first
SubStatusBegin ==
    /\ NoResponseHeld
    /\ Listening
    /\ role = "subscriber" /\ pc # "start"
    /\ httpResp = NoResp /\ hpc = "idle"
    /\ hpc' = "messages_received"
    /\ hresp' = [NoStatus EXCEPT !.mqtt = mqtt_connected,
                                 !.influx = (influx_client # None /\ storeUp)]
    /\ seen' = {Registry}
    /\ UNCHANGED <<lost, entry, calls, statsVars, storeVars, w_retry_count, subscribed, msg,
                   log, storeLog, pubVars, role, down, envVars, pc, caller, retry_count,
                   clientVars, running, error_count, cseq, incOps, busEvents, httpResp>>

\* handle_status_check: the 'statistics' entries, one attribute read each
SubStatusRead ==
    /\ NoResponseHeld
    /\ role = "subscriber"
    /\ hpc \in {"messages_received", "messages_written", "errors",
                "last_message_time", "last_write_time"}
    /\ CASE hpc = "messages_received" ->
              hresp' = [hresp EXCEPT !.received = message_count]
              /\ hpc' = "messages_written"
         [] hpc = "messages_written" ->
              hresp' = [hresp EXCEPT !.written = write_count] /\ hpc' = "errors"
         [] hpc = "errors" ->
              hresp' = [hresp EXCEPT !.errors = error_count]
              /\ hpc' = "last_message_time"
         [] hpc = "last_message_time" ->
              hresp' = [hresp EXCEPT !.lmt = last_message_time]
              /\ hpc' = "last_write_time"
         [] hpc = "last_write_time" ->
              hresp' = [hresp EXCEPT !.lwt = last_write_time] /\ hpc' = "done"
    /\ UNCHANGED <<lost, entry, calls, statsVars, storeVars, w_retry_count, subscribed, msg,
                   log, storeLog, seen, pubVars, role, down, envVars, pc, caller, retry_count,
                   clientVars, running, error_count, cseq, incOps, busEvents, httpResp>>

SubMain ==
    \/ StoreToggle \/ SubRun \/ SubCallConnectInfluxdb \/ SubCallConnectMqtt
    \/ SubCallLoop \/ SubInfluxTry \/ SubInfluxSleep \/ SubInfluxReturnRun
    \/ SubReturnToCaller \/ SubInfluxReturnWrite \/ SubInfluxReturnReconnect
    \/ SubMqttTry \/ SubMqttWait \/ SubMqttSleep \/ SubMqttReturnRun
    \/ SubOnConnect \/ SubOnDisconnect \/ SubLoopReconnect \/ SubOnMessage
    \/ SubWriteCheck \/ SubWriteAttempt \/ SubWriteSleep
    \/ SubHealth

SubNext == SubMain \/ SubStatusBegin \/ SubStatusRead

PubNext ==
    \/ PubRun \/ PubConnectTry \/ PubConnectWait \/ PubConnectExcept
    \/ PubConnectSleep \/ PubCycle \/ PubPublish \/ PubPublishFailed
    \/ PubCycleSleep \/ PubOnConnect \/ PubOnDisconnect \/ PubLoopStore
    \/ PubLoopReconnect \/ PubOnPublish \/ PubHealth

\* The response has been sent
HttpSent ==
    /\ httpResp # NoResp \/ hpc = "done"
    /\ httpResp' = NoResp
    /\ hpc' = "idle"
    /\ hresp' = NoStatus
    /\ seen' = {}
    /\ UNCHANGED <<lost, entry, calls, statsVars, storeVars, w_retry_count, subscribed, msg,
                   log, storeLog, pubVars, role, down, envVars, pc, caller, retry_count,
                   clientVars, running, error_count, cseq, incOps, busEvents>>

Next == BusToggle \/ PubNext \/ SubNext \/ HttpSent

Spec == Init /\ [][Next]_vars

---------------------------------------------------------------------------
(* The remaining paths of do_GET: the producer's /status, /metrics of both *)
(* roles, and a path that matches nothing.  They are served in HttpSpec.   *)

Paths == {"/status", "/metrics", "/other"}

\* The producer's handle_status_check and handle_metrics, and send_error(404)
PubResponse(path) ==
    IF path = "/status"
    THEN [NoResp EXCEPT !.kind = "status", !.code = 200, !.busOk = mqtt_connected,
                        !.storeOk = TRUE, !.flags = <<mqtt_connected>>,
                        !.counters = <<publish_count, error_count, last_publish_time>>]
    ELSE IF path = "/metrics"
    THEN [NoResp EXCEPT !.kind = "metrics", !.code = 200, !.busOk = mqtt_connected,
                        !.storeOk = TRUE, !.flags = <<mqtt_connected>>,
                        !.counters = <<publish_count, error_count>>]
    ELSE [NoResp EXCEPT !.kind = "not_found", !.code = 404]

\* A handler that counts unmatched paths as errors: not the code's
PubGetOtherCounting ==
    /\ NoResponseHeld
    /\ Listening
    /\ role = "publisher" /\ pc # "start"
    /\ \E path \in Paths :
        /\ httpResp' = PubResponse(path)
        /\ error_count' = IF path = "/other" THEN error_count + 1 ELSE error_count
    /\ UNCHANGED <<subVars, pubVars, role, down, envVars, pc, caller, retry_count, clientVars,
                   running, cseq, incOps, busEvents>>

PubGetOther ==
    /\ NoResponseHeld
    /\ Listening
    /\ role = "publisher" /\ pc # "start"
    /\ \E path \in Paths : httpResp' = PubResponse(path)
    /\ UNCHANGED <<subVars, pubVars, role, down, envVars, pc, caller, retry_count, clientVars,
                   running, error_count, cseq, incOps, busEvents>>

\* The consumer's handle_metrics, and send_error(404)
SubResponse(path) ==
    IF path = "/metrics"
    THEN [NoResp EXCEPT !.kind = "metrics", !.code = 200, !.busOk = mqtt_connected,
                        !.storeOk = StoreConnected,
                        !.flags = <<mqtt_connected, influx_client # None>>,
                        !.counters = <<message_count, write_count, error_count>>]
    ELSE [NoResp EXCEPT !.kind = "not_found", !.code = 404]

SubGetOther ==
    /\ NoResponseHeld
    /\ Listening
    /\ role = "subscriber" /\ pc # "start" /\ hpc = "idle"
    /\ \E path \in Paths \ {"/status"} : httpResp' = SubResponse(path)
    /\ UNCHANGED <<subVars, pubVars, role, down, envVars, pc, caller, retry_count, clientVars,
                   running, error_count, cseq, incOps, busEvents>>

HttpNext == Next \/ PubGetOther \/ SubGetOther

HttpSpec == Init /\ [][HttpNext]_vars

---------------------------------------------------------------------------
(* The shutdown path: run()'s try block is left by KeyboardInterrupt and   *)
(* the finally block runs.  The producer is interrupted in time.sleep(30), *)
(* the consumer in loop_forever() between two callbacks.  The listener     *)
(* serves /health until it is shut down; the /status request, which only   *)
(* reads, is left to Spec.                                                 *)

FinPc == <<"fin1", "fin2", "fin3", "fin4">>

\* A finally block that stops the HTTP listener before it disconnects: not
\* the code's
PubFinallyHttpFirst == <<"stop", "loop_stop", "http", "bus">>

\* The statements of the producer's finally block, in program order
PubFinally == <<"stop", "loop_stop", "bus", "http">>

\* The statements of the consumer's finally block, in program order
SubFinally == <<"stop", "bus", "store", "http">>

AtFinally(order, step) == \E i \in 1..Len(order) : pc = FinPc[i] /\ order[i] = step

AfterFinally(order, step) ==
    LET i == CHOOSE j \in 1..Len(order) : order[j] = step
    IN IF i = Len(order) THEN "stopped" ELSE FinPc[i + 1]

\* KeyboardInterrupt during time.sleep(30)
PubInterrupt ==
    /\ NoResponseHeld
    /\ role = "publisher" /\ pc = "cycle_sleep"
    /\ pc' = FinPc[1]
    /\ UNCHANGED <<subVars, role, down, envVars, caller, retry_count, tmp, room, clientVars,
                   lpc, ltmp, inflight, running, publish_count, error_count,
                   last_publish_time, cseq, incOps, handed, cycles, cyc, busEvents,
                   httpResp>>

\* self.running = False
PubStopRunning ==
    /\ NoResponseHeld
    /\ role = "publisher" /\ AtFinally(PubFinally, "stop")
    /\ pc' = AfterFinally(PubFinally, "stop")
    /\ running' = FALSE
    /\ down' = Append(down, "stop")
    /\ UNCHANGED <<subVars, role, envVars, caller, retry_count, tmp, room, clientVars,
                   lpc, ltmp, inflight, publish_count, error_count,
                   last_publish_time, cseq, incOps, handed, cycles, cyc, busEvents,
                   httpResp>>

\* self.client.loop_stop(): joins the network-loop thread
PubLoopStop ==
    /\ NoResponseHeld
    /\ role = "publisher" /\ AtFinally(PubFinally, "loop_stop")
    /\ lpc = "idle"
    /\ pc' = AfterFinally(PubFinally, "loop_stop")
    /\ loopStarted' = FALSE
    /\ down' = Append(down, "loop_stop")
    /\ UNCHANGED <<subVars, role, envVars, caller, retry_count, tmp, room, mqtt_connected,
                   pending, lpc, ltmp, inflight, running, publish_count, error_count,
                   last_publish_time, cseq, incOps, handed, cycles, cyc, busEvents,
                   httpResp>>

\* self.client.disconnect()
PubDisconnect ==
    /\ NoResponseHeld
    /\ role = "publisher" /\ AtFinally(PubFinally, "bus")
    /\ pc' = AfterFinally(PubFinally, "bus")
    /\ mqtt_connected' = FALSE
    /\ pending' = FALSE
    /\ down' = Append(down, "bus")
    /\ UNCHANGED <<subVars, role, envVars, caller, retry_count, tmp, room, loopStarted,
                   lpc, ltmp, inflight, running, publish_count, error_count,
                   last_publish_time, cseq, incOps, handed, cycles, cyc, busEvents,
                   httpResp>>

\* self.stop_health_server(): shutdown() and server_close()
PubStopHealthServer ==
    /\ NoResponseHeld
    /\ role = "publisher" /\ AtFinally(PubFinally, "http")
    /\ pc' = AfterFinally(PubFinally, "http")
    /\ down' = Append(down, "http")
    /\ UNCHANGED <<subVars, role, envVars, caller, retry_count, tmp, room, clientVars,
                   lpc, ltmp, inflight, running, publish_count, error_count,
                   last_publish_time, cseq, incOps, handed, cycles, cyc, busEvents,
                   httpResp>>

\* KeyboardInterrupt in loop_forever(), between two callbacks
SubInterrupt ==
    /\ NoResponseHeld
    /\ role = "subscriber" /\ pc = "loop"
    /\ pc' = FinPc[1]
    /\ UNCHANGED <<subVars, pubVars, role, down, envVars, caller, retry_count, clientVars,
                   running, error_count, cseq, incOps, busEvents, httpResp>>

\* self.running = False
SubStopRunning ==
    /\ NoResponseHeld
    /\ role = "subscriber" /\ AtFinally(SubFinally, "stop")
    /\ pc' = AfterFinally(SubFinally, "stop")
    /\ running' = FALSE
    /\ down' = Append(down, "stop")
    /\ UNCHANGED <<subVars, pubVars, role, envVars, caller, retry_count, clientVars,
                   error_count, cseq, incOps, busEvents, httpResp>>

\* self.mqtt_client.disconnect()
SubDisconnect ==
    /\ NoResponseHeld
    /\ role = "subscriber" /\ AtFinally(SubFinally, "bus")
    /\ pc' = AfterFinally(SubFinally, "bus")
    /\ mqtt_connected' = FALSE
    /\ pending' = FALSE
    /\ down' = Append(down, "bus")
    /\ UNCHANGED <<subVars, pubVars, role, envVars, caller, retry_count, loopStarted,
                   running, error_count, cseq, incOps, busEvents, httpResp>>

\* if self.influx_client: self.influx_client.close()
SubCloseStore ==
    /\ NoResponseHeld
    /\ role = "subscriber" /\ AtFinally(SubFinally, "store")
    /\ pc' = AfterFinally(SubFinally, "store")
    /\ down' = IF influx_client # None THEN Append(down, "store") ELSE down
    /\ UNCHANGED <<subVars, pubVars, role, envVars, caller, retry_count, clientVars,
                   running, error_count, cseq, incOps, busEvents, httpResp>>

\* self.stop_health_server(): shutdown() and server_close()
SubStopHealthServer ==
    /\ NoResponseHeld
    /\ role = "subscriber" /\ AtFinally(SubFinally, "http")
    /\ pc' = AfterFinally(SubFinally, "http")
    /\ down' = Append(down, "http")
    /\ UNCHANGED <<subVars, pubVars, role, envVars, caller, retry_count, clientVars,
                   running, error_count, cseq, incOps, busEvents, httpResp>>

PubShutdown ==
    PubInterrupt \/ PubStopRunning \/ PubLoopStop \/ PubDisconnect \/ PubStopHealthServer

SubShutdown ==
    SubInterrupt \/ SubStopRunning \/ SubDisconnect \/ SubCloseStore \/ SubStopHealthServer

ShutdownNext ==
    BusToggle \/ PubNext \/ SubMain \/ HttpSent \/ PubShutdown \/ SubShutdown

ShutdownSpec == Init /\ [][ShutdownNext]_vars

---------------------------------------------------------------------------
(* The producer alone, its main thread scheduled fairly.  No HTTP request  *)
(* is served: requests do not touch the producer's state.                  *)

PubInit == Init /\ role = "publisher"

\* The steps of the thread that runs run()
PubMainStep ==
    \/ PubRun \/ PubConnectTry \/ PubConnectWait \/ PubConnectExcept
    \/ PubConnectSleep \/ PubCycle \/ PubPublish \/ PubPublishFailed
    \/ PubCycleSleep

\* The steps of the bus client's network-loop thread
PubLoopStep ==
    \/ PubOnConnect \/ PubOnDisconnect \/ PubLoopStore \/ PubLoopReconnect
    \/ PubOnPublish

PubLiveNext == BusToggle \/ PubMainStep \/ PubLoopStep

PubLiveSpec == PubInit /\ [][PubLiveNext]_vars /\ WF_vars(PubMainStep)

---------------------------------------------------------------------------
(* The consumer alone, its thread scheduled fairly.  Under run() the bus   *)
(* client's callbacks are delivered by loop_forever() in this same thread. *)

SubInit == Init /\ role = "subscriber"

\* The steps of the consumer's own code
SubOwnStep ==
    \/ SubRun \/ SubCallConnectInfluxdb \/ SubCallConnectMqtt \/ SubCallLoop
    \/ SubInfluxTry \/ SubInfluxSleep \/ SubInfluxReturnRun \/ SubReturnToCaller
    \/ SubInfluxReturnWrite \/ SubInfluxReturnReconnect
    \/ SubMqttTry \/ SubMqttWait \/ SubMqttSleep \/ SubMqttReturnRun
    \/ SubWriteCheck \/ SubWriteAttempt \/ SubWriteSleep

\* The events loop_forever() delivers
SubLoopStep == SubOnConnect \/ SubOnDisconnect \/ SubLoopReconnect \/ SubOnMessage

SubLiveNext == BusToggle \/ StoreToggle \/ SubOwnStep \/ SubLoopStep

SubLiveSpec == SubInit /\ [][SubLiveNext]_vars /\ WF_vars(SubOwnStep)

---------------------------------------------------------------------------
(* Properties *)

\* C1: each of the three connect loops (connect, connect_mqtt,
\* connect_influxdb) makes at most 5 attempts, returns true at the first
\* attempt that reports connected, returns false once 5 attempts have
\* failed, and lets no exception escape.
C1_ConnectLoopContract ==
    /\ pc # "escaped"
    /\ cseq.attempts <= 5
    /\ cseq.fails + cseq.oks <= cseq.attempts
    /\ cseq.attempts <= cseq.fails + cseq.oks + 1
    /\ cseq.oks <= 1
    /\ (cseq.oks = 1) <=> (cseq.result = "true")
    /\ (cseq.fails = 5) <=> (cseq.result = "false")
    /\ cseq.result = "true" => cseq.attempts = cseq.fails + 1 /\ ~cseq.active
    /\ cseq.result = "false" => cseq.attempts = 5 /\ cseq.oks = 0 /\ ~cseq.active
    /\ (cseq.loop # "none" /\ cseq.result = "none") => cseq.active

\* A connect loop of the producer returned true at its third attempt
C1_Witness ==
    /\ cseq.loop = "connect" /\ cseq.result = "true"
    /\ cseq.fails = 2 /\ cseq.attempts = 3

\* C2 as stated: the bus unreachable for 5 attempts of the producer's connect
\* loop and reachable afterwards, the loop has slept 2, 4, 8, 16, 30 s and
\* goes on to succeed.
C2_FiveSleepsThenSuccess ==
    (cseq.loop = "connect" /\ cseq.fails = 5) =>
        (cseq.sleeps = <<2, 4, 8, 16, 30>> /\ cseq.result # "false")

\* C2 as the code has it: the producer's connect loop sleeps after each of
\* its first four failures only, 2, 4, 8, 16 s in that order; a loop that
\* succeeds after k <= 4 failures has slept exactly k times, and after the
\* fifth failure the loop returns false without a further sleep.
C2_BackoffSleeps ==
    cseq.loop = "connect" =>
        /\ Len(cseq.sleeps) <= 4
        /\ \A i \in 1..Len(cseq.sleeps) : cseq.sleeps[i] = <<2, 4, 8, 16>>[i]
        /\ Len(cseq.sleeps) \in {cseq.fails, cseq.fails - 1}
        /\ cseq.result = "true" => Len(cseq.sleeps) = cseq.fails
        /\ cseq.result = "false" => cseq.sleeps = <<2, 4, 8, 16>>
        /\ cseq.fails = 5 => cseq.result = "false"

\* The producer connected at its fifth attempt, after the four sleeps
C2_Witness ==
    /\ cseq.loop = "connect" /\ cseq.result = "true"
    /\ cseq.fails = 4 /\ cseq.sleeps = <<2, 4, 8, 16>>

\* The reason /health has to give for the dependencies that are down
HealthReason(busOk, storeOk) ==
    IF busOk /\ storeOk THEN "OK"
    ELSE IF ~busOk /\ ~storeOk THEN "MQTT_AND_INFLUXDB_DISCONNECTED"
    ELSE IF ~busOk THEN "MQTT_DISCONNECTED"
    ELSE "INFLUXDB_DISCONNECTED"

\* C3 as stated: /health answers 200 only when every dependency of the role
\* is connected at that instant, and 503 with the reason naming exactly the
\* dependencies that are down otherwise; the bus connected and the store
\* down give the store-specific 503.
C3_HealthReflectsDependencies ==
    httpResp.kind = "health" =>
        /\ (httpResp.code = 200) <=> (httpResp.busOk /\ httpResp.storeOk)
        /\ httpResp.code \in {200, 503}
        /\ httpResp.body = HealthReason(httpResp.busOk, httpResp.storeOk)

\* A reading the validation rules reject: temperature missing, a field of the
\* wrong type, or humidity outside [20, 80]
InvalidReading(p) ==
    /\ p.enc = "json" /\ p.obj
    /\ \/ p.tkind # "number"
       \/ p.hkind # "number"
       \/ p.hval < HumidityMin
       \/ p.hval > HumidityMax

\* C4 as stated: a message whose payload is an invalid reading increases
\* error_count and never reaches the Store Writer: no write attempt, no
\* store connect, no retry sleep.
C4_InvalidReadingRejected ==
    (msg.id > 0 /\ InvalidReading(msg.payload)) =>
        /\ ~msg.writer
        /\ msg.writes = 0 /\ msg.connSeqs = 0 /\ msg.sleeps = <<>>
        /\ write_count = msg.wc0
        /\ msg.state = "done" => error_count > msg.ec0

\* C5 as stated: write_to_influxdb entered without a store handle, its
\* connect loop having returned false, the call raises to its caller and has
\* done nothing else: no error_count of its own, no sleep, no second pass,
\* no further connect loop.
C5_NoHandleRaises ==
    (msg.noHandle /\ msg.firstCI = "fail") =>
        /\ msg.outcome = "raised"
        /\ msg.errIncs = 0 /\ msg.sleeps = <<>>
        /\ msg.iters = 1 /\ msg.connSeqs = 1 /\ msg.writes = 0

\* C6 as stated: in both roles no increment of a statistic is lost: whenever
\* no `error_count += 1' is in progress, error_count equals the number of
\* increments performed.
C6_NoLostIncrement ==
    (pc \notin {"c_exc_st", "p_exc_st"} /\ lpc = "idle") => error_count = incOps

\* C7 as stated: in both roles no step decreases an exposed counter.
C7_CountersNeverDecrease ==
    [][/\ error_count' >= error_count
       /\ publish_count' >= publish_count
       /\ message_count' >= message_count
       /\ write_count' >= write_count]_vars

\* C8 as stated: the statistics of a finished /status response are the
\* registry's values at one instant of the request.
C8_StatusIsSnapshot ==
    hpc = "done" =>
        <<hresp.received, hresp.written, hresp.errors, hresp.lmt, hresp.lwt>> \in seen

\* C9: while and after write_to_influxdb handles a message, write_count has
\* grown by exactly one if a write attempt for the message succeeded and by
\* nothing otherwise, however many attempts failed; a success ends the call,
\* and last_write_time follows write_count.
C9_WrittenOncePerSuccess ==
    /\ msg.id > 0 =>
        /\ write_count = msg.wc0 + (IF msg.wrote THEN 1 ELSE 0)
        /\ msg.wrote <=> msg.outcome = "written"
        /\ msg.wrote => msg.state = "done" /\ last_write_time = write_count
        /\ ~msg.wrote => last_write_time = msg.lwt0
    /\ write_count = Cardinality({i \in 1..Len(log) : log[i].outcome = "written"})

\* A message written at the third attempt, after two failed writes
C9_Witness ==
    /\ msg.wrote /\ msg.iters = 3 /\ msg.writes = 3 /\ msg.errIncs = 2
    /\ write_count = msg.wc0 + 1

\* C10: a message whose 3 passes all failed is dropped: write_to_influxdb
\* has returned normally to the bus client's loop, write_count and
\* last_write_time are what they were, error_count has grown by the three
\* failures at least, no write for the message follows a write for a later
\* message, and no message gets more than 3 write attempts.
C10_DroppedAfterThreeFailures ==
    /\ msg.outcome = "dropped" =>
        /\ msg.state = "done" /\ pc = "loop"
        /\ msg.iters = 3 /\ msg.errIncs = 3 /\ msg.writes <= 3
        /\ write_count = msg.wc0 /\ last_write_time = msg.lwt0
        /\ error_count >= msg.ec0 + 3
    /\ msg.outcome # "raised"
    /\ \A i \in 1..Len(log) :
        /\ log[i].outcome # "raised"
        /\ log[i].outcome = "dropped" => log[i].iters = 3
    /\ \A j \in 1..Len(storeLog) :
        /\ j < Len(storeLog) => storeLog[j] <= storeLog[j + 1]
        /\ Cardinality({k \in 1..Len(storeLog) : storeLog[k] = storeLog[j]}) <= 3

\* The first message was dropped after three failed writes and the second
\* one has been written
C10_Witness ==
    /\ Len(log) = 2 /\ log[1].outcome = "dropped" /\ log[1].id = 1
    /\ Cardinality({k \in 1..Len(storeLog) : storeLog[k] = 1}) = 3
    /\ msg.id = 2 /\ msg.outcome = "written"

\* C11: on_mqtt_message never lets an exception escape into the bus
\* client's loop: whatever the payload and whatever the store does, a
\* message that has been handled ended as a decode error, a written record
\* or a dropped record, and the consumer's thread is back in the loop, where
\* the next message is delivered.
C11_HandlerNeverRaises ==
    role = "subscriber" =>
        /\ pc # "escaped"
        /\ msg.state = "done" =>
            /\ pc = "loop"
            /\ msg.outcome \in {"decode_error", "written", "dropped"}
        /\ msg.state = "handling" =>
            pc \in {"w_check", "w_write", "w_sleep", "ci_try", "ci_sleep", "ci_ret"}
        /\ Len(log) = (IF msg.state = "handling" THEN msg.id - 1 ELSE msg.id)
        /\ \A i \in 1..Len(log) :
            log[i].id = i /\ log[i].outcome \in {"decode_error", "written", "dropped"}

\* Undecodable bytes were handled first, and then a JSON value of the wrong
\* shape, which the store writer dropped after its three passes
C11_Witness ==
    /\ Len(log) = 2 /\ log[1].outcome = "decode_error"
    /\ msg.id = 2 /\ msg.payload.enc = "json" /\ ~msg.payload.obj
    /\ msg.outcome = "dropped" /\ pc = "loop"

\* C12 as stated: message_count and last_message_time move for an inbound
\* message exactly when its payload decodes: message_count is the number of
\* messages that decoded, and a message whose decode failed increased
\* error_count and left message_count and last_message_time alone.
C12_ReceivedCountsDecoded ==
    role = "subscriber" =>
        /\ message_count =
              Cardinality({i \in 1..Len(log) : log[i].outcome # "decode_error"})
              + (IF msg.state = "handling" THEN 1 ELSE 0)
        /\ last_message_time = message_count
        /\ msg.outcome = "decode_error" => error_count > msg.ec0

\* C13 as stated: a publish cycle that found the bus disconnected and whose
\* connect loop failed is abandoned: it made no client.publish() call and
\* handed nothing to the bus client, control is back in the scheduling loop
\* of run(), and error_count is above its value at the start of the cycle.
C13_AbandonedCycle ==
    /\ (cyc.connect = "failed") <=> cyc.abandoned
    /\ cyc.abandoned =>
        /\ cyc.tries = 0 /\ handed = cyc.handed0
        /\ pc \in {"cycle_sleep", "loop"}
        /\ running
        /\ error_count > cyc.ec0

C15_CountedAtConfirmation ==
    /\ [](role = "publisher" =>
            (/\ publish_count <= handed
             /\ publish_count + inflight = handed
             /\ last_publish_time = publish_count))
    /\ [][(publish_count' # publish_count \/ last_publish_time' # last_publish_time) =>
            (/\ publish_count' = publish_count + 1
             /\ inflight' = inflight - 1
             /\ handed' = handed /\ pc' = pc /\ cyc' = cyc)]_vars
    /\ [][handed' # handed =>
            (/\ handed' = handed + 1 /\ pc = "pub"
             /\ publish_count' = publish_count
             /\ last_publish_time' = last_publish_time)]_vars

\* Two readings were handed over and one of them has been confirmed
C15_Witness ==
    handed = 2 /\ publish_count = 1 /\ inflight = 1 /\ last_publish_time = 1

\* C16: message handling is strictly sequential: the handling of message
\* i + 1 begins only when message i is done, written or dropped, with all
\* its passes and sleeps; so the write calls reach the store in arrival
\* order, and the records written are a subsequence of the arrivals.
C16_SequentialHandling ==
    /\ [](role = "subscriber" =>
            (/\ msg.state = "handling" => pc # "loop"
             /\ \A i \in 1..Len(log) : log[i].id = i /\ log[i].id <= msg.id
             /\ \A j \in 1..Len(storeLog) :
                 /\ storeLog[j] \in 1..msg.id
                 /\ j < Len(storeLog) => storeLog[j] <= storeLog[j + 1]
             /\ (msg.state = "handling" /\ Len(storeLog) > 0 /\ msg.writes > 0)
                   => storeLog[Len(storeLog)] = msg.id))
    /\ [][msg'.id # msg.id =>
            (/\ msg.state \in {"none", "done"}
             /\ msg'.id = msg.id + 1
             /\ storeLog' = storeLog)]_vars
    /\ [][storeLog' # storeLog =>
            (/\ msg.state = "handling" /\ msg'.id = msg.id
             /\ storeLog' = Append(storeLog, msg.id))]_vars

\* Two messages were written, the first one at its second attempt
C16_Witness ==
    /\ Len(log) = 2 /\ log[1].outcome = "written" /\ log[2].outcome = "written"
    /\ storeLog = <<1, 1, 2>>

\* C17 as stated: after the bus connection was lost during loop_forever, no
\* further message is handled until the connect loop of connect_mqtt has
\* run again.
C17_ReconnectBySupervisor ==
    [][msg'.id # msg.id => ~lost]_vars

\* The counters /metrics reports in the current state
MetricsCounters ==
    IF role = "publisher" THEN <<publish_count, error_count>>
    ELSE <<message_count, write_count, error_count>>

\* C18: a step that serves an HTTP request (/health, /status, /metrics or an
\* unmatched path) or sends its response changes no statistic and no
\* connection handle, in both roles; a /metrics response holds the counters
\* of the state it was served in, so a second request served with nothing
\* in between returns the same values.
C18_RequestsChangeNothing ==
    /\ [][(httpResp' # httpResp \/ hpc' # hpc \/ hresp' # hresp) =>
            (/\ UNCHANGED <<publish_count, error_count, last_publish_time, incOps>>
             /\ UNCHANGED <<message_count, write_count, last_message_time,
                            last_write_time>>
             /\ UNCHANGED <<mqtt_connected, pending, loopStarted, subscribed>>
             /\ UNCHANGED <<influx_client, write_api, nClients>>
             /\ UNCHANGED <<pc, lpc, running, retry_count, w_retry_count>>)]_vars
    /\ [](httpResp.kind = "metrics" => httpResp.counters = MetricsCounters)
    /\ [](httpResp.kind = "not_found" => httpResp.code = 404)

\* /metrics of the consumer served after a message was written
C18_Witness ==
    /\ role = "subscriber" /\ httpResp.kind = "metrics"
    /\ httpResp.counters[1] = 1 /\ httpResp.counters[2] = 1
    /\ httpResp.flags = <<TRUE, TRUE>>

\* The position of a statement of the finally block in the order the
\* shutdown is to follow
ShutdownRank(step) ==
    CASE step = "stop" -> 1
      [] step = "loop_stop" -> 2
      [] step = "bus" -> 3
      [] step = "store" -> 4
      [] step = "http" -> 5

\* C19: on the shutdown path of either role the steps are taken in the
\* order stop producing / consuming, close the bus connection, close the
\* store client (consumer), shut down the HTTP listener; when the listener
\* is shut down the role has stopped, the bus client is disconnected and
\* the store client the consumer holds has been closed.
C19_ShutdownOrder ==
    /\ \A i, j \in 1..Len(down) :
          i < j => ShutdownRank(down[i]) < ShutdownRank(down[j])
    /\ ~Listening =>
          /\ ~running /\ ~mqtt_connected /\ ~pending
          /\ \E i \in 1..Len(down) : down[i] = "stop"
          /\ \E i \in 1..Len(down) : down[i] = "bus"
          /\ role = "subscriber" /\ influx_client # None =>
                \E i \in 1..Len(down) : down[i] = "store"
          /\ role = "publisher" => ~loopStarted

\* The producer has shut down after publishing
C19_Witness ==
    /\ role = "publisher" /\ pc = "stopped" /\ publish_count > 0
    /\ down = <<"stop", "loop_stop", "bus", "http">>

\* The consumer has shut down after writing a reading
C19_WitnessConsumer ==
    /\ role = "subscriber" /\ pc = "stopped" /\ write_count > 0
    /\ down = <<"stop", "bus", "store", "http">>

\* C20 as stated: one write_to_influxdb call makes at most 3 passes and 3
\* write attempts; it sleeps 2 s after the first failure and 4 s after the
\* second, runs the store connect sequence exactly once between the second
\* failure and the third attempt, and neither sleeps nor connects after the
\* third failure.  reconns counts the connect sequences begun after the
\* second failure.
C20_WriteRetrySchedule ==
    /\ msg.iters <= 3 /\ msg.writes <= 3
    /\ msg.sleeps \in {<<>>, <<2>>, <<2, 4>>}
    /\ msg.errIncs >= 1 /\ msg.state = "handling" /\ pc \in {"w_check", "w_write"} =>
          Len(msg.sleeps) = msg.errIncs
    /\ Len(msg.sleeps) < 2 => msg.reconns = 0
    /\ msg.iters = 3 => msg.reconns = 1
    /\ msg.outcome = "dropped" => msg.sleeps = <<2, 4>> /\ msg.reconns = 1

\* With a write handle held when the call begins the schedule is the stated one
C20_ScheduleWithHandle ==
    ~msg.noHandle => C20_WriteRetrySchedule

\* C21 as stated: a connect sequence that ends after k failed attempts, by
\* success or by exhaustion, has increased error_count by exactly k, whatever
\* callbacks fired meanwhile.  ec0 is error_count when the sequence began.
C21_ErrorCountPerFailure ==
    [][(cseq.active /\ ~cseq'.active /\ cseq'.loop # "none") =>
          error_count' = cseq'.ec0 + cseq'.fails]_vars

\* The same for the consumer's two connect loops, whose increments are made
\* under the lock in the thread that also runs the callbacks
C21_ConsumerErrorCountPerFailure ==
    [][(role = "subscriber" /\ cseq.active /\ ~cseq'.active /\ cseq'.loop # "none") =>
          error_count' = cseq'.ec0 + cseq'.fails]_vars

\* C22 as stated: from the instant a connect sequence succeeds its attempt
\* counter is 0.
C22_ResetAtSuccess ==
    cseq.result = "true" => retry_count = 0

\* C22 as the code has it: retry_count is set to 0 when a connect sequence
\* starts, never decreases within the sequence and equals the number of its
\* failed attempts at every step; a success does not touch it: the sequence
\* ends with retry_count = k, and the counter is 0 again when the next
\* sequence starts.
C22_CounterFollowsFailures ==
    /\ [](cseq.loop # "none" => retry_count = cseq.fails)
    /\ [][(cseq'.active /\ cseq'.attempts = 0 /\ cseq' # cseq) => retry_count' = 0]_vars
    /\ [][(cseq.active /\ cseq'.loop = cseq.loop /\ cseq'.attempts >= cseq.attempts) =>
            /\ retry_count' >= retry_count
            /\ cseq'.result = "true" => retry_count' = retry_count]_vars

\* The store connect loop has succeeded at its third attempt
C22_Witness ==
    /\ cseq.loop = "connect_influxdb" /\ cseq.result = "true"
    /\ cseq.fails = 2 /\ retry_count = 2

\* One client.publish() call per sensor, in order, none repeated, whatever
\* the calls return, in a cycle that began connected
C23_PublishCalls ==
    (role = "publisher" /\ cyc.n > 0 /\ cyc.connect = "none") =>
        /\ cyc.tries <= NumSensors /\ cyc.rejected <= cyc.tries
        /\ handed = cyc.handed0 + cyc.tries - cyc.rejected
        /\ pc = "pub" => cyc.tries = room - 1
        /\ pc = "p_exc_st" => cyc.tries = room
        /\ pc \in {"cycle_sleep", "loop"} => cyc.tries = NumSensors

\* C23 as stated: a cycle that begins connected makes exactly one publish
\* call per sensor; a call the bus client reports as failed is not repeated,
\* does not stop the calls for the remaining sensors, and raises error_count
\* by exactly one: the step that completes its `error_count += 1' leaves
\* error_count one above what it was, and at the end of the cycle error_count
\* is above its value at the start by the number of failed calls at least.
C23_OnePublishPerSource ==
    /\ [](C23_PublishCalls)
    /\ [][(pc = "p_exc_st" /\ pc' # pc) => error_count' = error_count + 1]_vars
    /\ []((role = "publisher" /\ cyc.n > 0 /\ cyc.connect = "none"
           /\ pc \in {"cycle_sleep", "loop"}) =>
              error_count >= cyc.ec0 + cyc.rejected)

\* The subscription is asked for in every on_mqtt_connect(rc = 0), after a
\* connection loss too, and messages are handled only on a connection whose
\* subscription was granted
C24_SubscribedOnConnect ==
    /\ [][(role = "subscriber" /\ ~mqtt_connected /\ mqtt_connected') =>
            subscribed' # "none"]_vars
    /\ [][msg'.id # msg.id => (mqtt_connected /\ subscribed = "granted")]_vars
    /\ []((role = "subscriber" /\ mqtt_connected) => subscribed # "none")

\* C24 as stated: the subscription is issued again at every successful
\* (re)connect before messages are handled, and a subscription that fails is
\* treated as a connection failure: the step that finds it refused counts an
\* error and does not leave the bus client connected.
C24_ResubscribeOrFail ==
    /\ C24_SubscribedOnConnect
    /\ [][(subscribed' = "refused" /\ subscribed # "refused") =>
            (error_count' = error_count + 1 /\ ~mqtt_connected')]_vars

\* handle_status_check served in the current state: the flags and counters
\* of its response, each read as SubStatusBegin and SubStatusRead read it
SubStatusNow ==
    [NoStatus EXCEPT !.mqtt = mqtt_connected,
                     !.influx = (influx_client # None /\ storeUp),
                     !.received = message_count, !.written = write_count,
                     !.errors = error_count, !.lmt = last_message_time,
                     !.lwt = last_write_time]

\* C25 as stated: in every state of the consumer /metrics reports the same
\* data as /status: the same bus flag, the same store flag, the same three
\* counters.
C25_MetricsEqualsStatus ==
    role = "subscriber" =>
        /\ SubResponse("/metrics").flags = <<SubStatusNow.mqtt, SubStatusNow.influx>>
        /\ SubResponse("/metrics").counters =
              <<SubStatusNow.received, SubStatusNow.written, SubStatusNow.errors>>

\* The bus flag and the counters of the two probes do agree
C25_SameBusFlagAndCounters ==
    role = "subscriber" =>
        /\ SubResponse("/metrics").flags[1] = SubStatusNow.mqtt
        /\ SubResponse("/metrics").counters =
              <<SubStatusNow.received, SubStatusNow.written, SubStatusNow.errors>>

\* C26 as stated: the store and the bus being reachable, run() gets past
\* connect_mqtt and enters the message-handling loop.
C26_RunReachesLoop ==
    [](busUp /\ storeUp) => ((entry = "run") ~> (pc = "loop"))

\* What run() does instead: the bus client is never connected while
\* connect_mqtt waits, and run() never enters loop_forever()
C26_RunNeverConnected ==
    entry = "run" => (~mqtt_connected /\ pc # "loop" /\ msg.id = 0)

C28_WrittenAtMostReceived ==
    /\ [](role = "subscriber" =>
            (/\ write_count <= message_count
             /\ write_count = Cardinality({i \in 1..Len(log) : log[i].outcome = "written"})
             /\ message_count = msg.id))
    /\ [][write_count' # write_count =>
            (/\ write_count' = write_count + 1
             /\ msg.state = "handling" /\ msg'.id = msg.id
             /\ message_count' = message_count)]_vars

\* Two messages were received; the first was dropped after three failed
\* writes and a reconnect, the second was written at its second attempt
C28_Witness ==
    /\ message_count = 2 /\ write_count = 1
    /\ Len(log) = 2 /\ log[1].outcome = "dropped" /\ log[2].outcome = "written"
    /\ log[2].iters = 2 /\ nClients >= 2

\* The store clients created and not closed: close() is called in one place,
\* the finally block of run(), on the client held then
OpenClients ==
    {c \in 1..nClients :
        ~(c = influx_client /\ \E i \in 1..Len(down) : down[i] = "store")}

\* The write handle, when one is held, belongs to the client held
C29_HandleOfCurrentClient ==
    (role = "subscriber" /\ write_api # None) => write_api = influx_client

\* C29 as stated: at most one store client is open at any time, the write
\* handle held belongs to the current store client, and when the shutdown
\* path has completed every store client created has been closed.
C29_OneStoreClient ==
    role = "subscriber" =>
        /\ Cardinality(OpenClients) <= 1
        /\ C29_HandleOfCurrentClient
        /\ pc = "stopped" => OpenClients = {}

=============================================================================
